---- MODULE Spec2Model ----
(***************************************************************************)
(* Model of ctapipe.core.traits: the TelescopeParameter trait, its value   *)
(* type TelescopePatternList and the TelescopeParameterLookup that         *)
(* resolves a list of (command, argument, value) patterns against a        *)
(* subarray description; the Path trait; the ComponentName trait.          *)
(*                                                                         *)
(* Vocabulary of the specification document: RuleSet = TelescopePattern-   *)
(* List, Resolver = TelescopeParameterLookup, catalog = subarray,          *)
(* attach = attach_subarray, lookup(k) = value.tel[k].                     *)
(***************************************************************************)
EXTENDS Integers, Sequences, FiniteSets, TLC

(***************************************************************************)
(* Python values.  Every value is a record of one shape so that values of  *)
(* different Python types can be compared: k is the Python type, s the     *)
(* characters of a str, n the number of an int or float.                   *)
(***************************************************************************)
PyStr(s) == [k |-> "str", s |-> s, n |-> 0]

PyInt(n) == [k |-> "int", s |-> <<>>, n |-> n]

PyFloat(n) == [k |-> "float", s |-> <<>>, n |-> n]

None == [k |-> "none", s |-> <<>>, n |-> 0]

Undefined == [k |-> "undefined", s |-> <<>>, n |-> 0]

TYPE == PyStr(<<"t", "y", "p", "e">>)

ID == PyStr(<<"i", "d">>)

STAR == PyStr(<<"*">>)

\* Longest rule list given to the trait, and longest list append() builds.
MaxRules == 2

(***************************************************************************)
(* Subarray descriptions (entity catalogs).  A subarray is known by name;  *)
(* telescope_types and get_tel_ids_for_type are what the lookup asks of    *)
(* it.  NoSubarray is Python's None in a _subarray attribute.              *)
(***************************************************************************)
NoSubarray == "none"

LA == <<"L", "A">>

MB == <<"M", "B">>

Subarrays == {"A", "B", "E"}

telescope_types(subarray) ==
    CASE subarray = "A" -> {LA, MB}
      [] subarray = "B" -> {MB}
      [] OTHER -> {}

get_tel_ids_for_type(subarray, tel_type) ==
    CASE subarray = "A" /\ tel_type = LA -> {5}
      [] subarray = "A" /\ tel_type = MB -> {7}
      [] subarray = "B" /\ tel_type = MB -> {5}
      [] OTHER -> {}

(***************************************************************************)
(* fnmatch.fnmatch(name, pat) on a POSIX system (normcase is the           *)
(* identity): '*' matches any run of characters, '?' any one character,    *)
(* every other character itself.                                           *)
(***************************************************************************)
RECURSIVE fnmatch(_, _)
fnmatch(name, pat) ==
    IF pat = <<>> THEN name = <<>>
    ELSE IF Head(pat) = "*"
         THEN fnmatch(name, Tail(pat))
              \/ (name # <<>> /\ fnmatch(Tail(name), pat))
         ELSE /\ name # <<>>
              /\ (Head(pat) = "?" \/ Head(pat) = Head(name))
              /\ fnmatch(Tail(name), Tail(pat))

(***************************************************************************)
(* Python's int(x): an int is itself, a float is truncated, a str of       *)
(* decimal digits is parsed, any other str raises ValueError and None      *)
(* raises TypeError.                                                       *)
(***************************************************************************)
DigitChars == <<"0", "1", "2", "3", "4", "5", "6", "7", "8", "9">>

IsDigit(c) == \E i \in 1..Len(DigitChars) : DigitChars[i] = c

DigitVal(c) == (CHOOSE i \in 1..Len(DigitChars) : DigitChars[i] = c) - 1

RECURSIVE ParseDigits(_, _)
ParseDigits(s, acc) ==
    IF s = <<>> THEN acc
    ELSE ParseDigits(Tail(s), acc * 10 + DigitVal(Head(s)))

int(x) ==
    CASE x.k = "int" -> [exc |-> "none", n |-> x.n]
      [] x.k = "float" -> [exc |-> "none", n |-> x.n]
      [] x.k = "str" ->
            IF x.s # <<>> /\ \A i \in 1..Len(x.s) : IsDigit(x.s[i])
            THEN [exc |-> "none", n |-> ParseDigits(x.s, 0)]
            ELSE [exc |-> "ValueError", n |-> 0]
      [] OTHER -> [exc |-> "TypeError", n |-> 0]

(***************************************************************************)
(* Dictionaries are functions; d[key] = value is Put.                      *)
(***************************************************************************)
EmptyDict == [x \in {} |-> None]

Put(d, key, value) ==
    [x \in (DOMAIN d) \cup {key} |-> IF x = key THEN value ELSE d[x]]

RECURSIVE PutAll(_, _, _)
PutAll(d, keys, value) ==
    IF keys = {} THEN d
    ELSE LET key == CHOOSE x \in keys : TRUE
         IN PutAll(Put(d, key, value), keys \ {key}, value)

(***************************************************************************)
(* TelescopeParameterLookup.  exists = FALSE stands for Python's None in   *)
(* TelescopePatternList._lookup; attached is "_value_for_tel_id is not     *)
(* None".                                                                  *)
(***************************************************************************)
NoLookup ==
    [exists |-> FALSE, params |-> <<>>, global |-> Undefined,
     attached |-> FALSE, subarray |-> NoSubarray,
     value_for_tel_id |-> EmptyDict, value_for_type |-> EmptyDict,
     type_strs |-> {}]

\* mutant: the first pattern whose argument is "*" keeps the global value
RECURSIVE subarray_global_value_first(_, _, _)
subarray_global_value_first(params, i, global) ==
    IF i > Len(params) THEN global
    ELSE subarray_global_value_first(params, i + 1,
            IF params[i][2] = STAR /\ global = Undefined
            THEN params[i][3] ELSE global)

\* the loop of __init__: the last pattern whose argument is "*" sets the
\* global value
RECURSIVE subarray_global_value(_, _, _)
subarray_global_value(params, i, global) ==
    IF i > Len(params) THEN global
    ELSE subarray_global_value(params, i + 1,
            IF params[i][2] = STAR THEN params[i][3] ELSE global)

\* mutant: the global value is not taken from the list
TelescopeParameterLookup_no_global(telescope_parameter_list) ==
    [exists |-> TRUE, params |-> telescope_parameter_list,
     global |-> Undefined,
     attached |-> FALSE, subarray |-> NoSubarray,
     value_for_tel_id |-> EmptyDict, value_for_type |-> EmptyDict,
     type_strs |-> {}]

\* TelescopeParameterLookup(telescope_parameter_list): keeps a deep copy of
\* the list as it is now
TelescopeParameterLookup(telescope_parameter_list) ==
    [exists |-> TRUE, params |-> telescope_parameter_list,
     global |-> subarray_global_value(telescope_parameter_list, 1, Undefined),
     attached |-> FALSE, subarray |-> NoSubarray,
     value_for_tel_id |-> EmptyDict, value_for_type |-> EmptyDict,
     type_strs |-> {}]

matched_tel_types(subarray, arg) ==
    {t \in telescope_types(subarray) : fnmatch(t, arg.s)}

\* for tel_type in matched_tel_types: every id of the type gets the value
all_tel_ids(subarray, types) ==
    UNION {get_tel_ids_for_type(subarray, t) : t \in types}

\* mutant: a type rule leaves the ids alone that already have a value
attach_pattern_keep_ids(lk, subarray, pattern) ==
    LET command == pattern[1]
        arg == pattern[2]
        value == pattern[3]
    IN IF command = TYPE
       THEN LET matched == matched_tel_types(subarray, arg)
            IN [lk EXCEPT
                  !.value_for_type = PutAll(@, matched, value),
                  !.value_for_tel_id =
                      PutAll(@, all_tel_ids(subarray, matched) \ DOMAIN @,
                             value)]
       ELSE IF command = ID
       THEN [lk EXCEPT !.value_for_tel_id = Put(@, int(arg).n, value)]
       ELSE lk

\* one pass of the for loop over (command, arg, value)
attach_pattern(lk, subarray, pattern) ==
    LET command == pattern[1]
        arg == pattern[2]
        value == pattern[3]
    IN IF command = TYPE
       THEN LET matched == matched_tel_types(subarray, arg)
            IN [lk EXCEPT
                  !.value_for_type = PutAll(@, matched, value),
                  !.value_for_tel_id =
                      PutAll(@, all_tel_ids(subarray, matched), value)]
       ELSE IF command = ID
       THEN [lk EXCEPT !.value_for_tel_id = Put(@, int(arg).n, value)]
       ELSE lk

\* the patterns for which logger.warning is called: the type rules whose
\* argument matches no telescope type of the subarray
attach_warnings(lk, subarray) ==
    {i \in 1..Len(lk.params) :
        /\ lk.params[i][1] = TYPE
        /\ Cardinality(matched_tel_types(subarray, lk.params[i][2])) = 0}

\* mutant: a type rule that matches no telescope type ends the loop
RECURSIVE attach_loop_abort(_, _, _)
attach_loop_abort(lk, subarray, i) ==
    IF i > Len(lk.params) THEN lk
    ELSE IF i \in attach_warnings(lk, subarray) THEN lk
    ELSE attach_loop_abort(attach_pattern(lk, subarray, lk.params[i]),
                           subarray, i + 1)

RECURSIVE attach_loop(_, _, _)
attach_loop(lk, subarray, i) ==
    IF i > Len(lk.params) THEN lk
    ELSE attach_loop(attach_pattern(lk, subarray, lk.params[i]), subarray, i + 1)

\* mutant: the dictionaries of the attachment before are kept
Lookup_attach_subarray_keep(lk, subarray) ==
    attach_loop([lk EXCEPT !.subarray = subarray,
                           !.attached = TRUE,
                           !.type_strs = telescope_types(subarray)],
                subarray, 1)

\* mutant: a subarray without telescope types leaves the lookup unattached
Lookup_attach_subarray_empty(lk, subarray) ==
    IF telescope_types(subarray) = {}
    THEN [lk EXCEPT !.subarray = subarray, !.attached = FALSE,
                    !.value_for_tel_id = EmptyDict,
                    !.value_for_type = EmptyDict, !.type_strs = {}]
    ELSE attach_loop([lk EXCEPT !.subarray = subarray,
                                !.attached = TRUE,
                                !.value_for_tel_id = EmptyDict,
                                !.value_for_type = EmptyDict,
                                !.type_strs = telescope_types(subarray)],
                     subarray, 1)

\* mutant: the global value is reset and set again by the "*" rule only when
\* the subarray has a telescope type for it to match
Lookup_attach_subarray_global(lk, subarray) ==
    attach_loop([lk EXCEPT !.subarray = subarray,
                           !.attached = TRUE,
                           !.global =
                              IF telescope_types(subarray) = {} THEN Undefined
                              ELSE subarray_global_value(lk.params, 1, Undefined),
                           !.value_for_tel_id = EmptyDict,
                           !.value_for_type = EmptyDict,
                           !.type_strs = telescope_types(subarray)],
                subarray, 1)

\* TelescopeParameterLookup.attach_subarray(subarray)
Lookup_attach_subarray(lk, subarray) ==
    attach_loop([lk EXCEPT !.subarray = subarray,
                           !.attached = TRUE,
                           !.value_for_tel_id = EmptyDict,
                           !.value_for_type = EmptyDict,
                           !.type_strs = telescope_types(subarray)],
                subarray, 1)

(***************************************************************************)
(* TelescopeParameterLookup.__getitem__(tel).  The outcome is the value    *)
(* returned or the exception raised, named as the specification document   *)
(* names it: NoDefault is the KeyError of line 448, NotBound the           *)
(* ValueError of line 451 (and the RuntimeError of the tel property),      *)
(* UnresolvedEntity the KeyError of lines 460 and 480, UnknownType the     *)
(* ValueError of line 474.                                                 *)
(***************************************************************************)
Returns(value) == [exc |-> "none", val |-> value]

Raises(exc) == [exc |-> exc, val |-> None]

\* mutant: the test for an attached subarray comes before the test for None
getitem_attached_first(lk, tel) ==
    IF ~lk.attached THEN Raises("NotBound")
    ELSE IF tel = None
    THEN IF lk.global # Undefined THEN Returns(lk.global) ELSE Raises("NoDefault")
    ELSE IF tel.k = "int"
    THEN IF tel.n \in DOMAIN lk.value_for_tel_id
         THEN Returns(lk.value_for_tel_id[tel.n])
         ELSE Raises("UnresolvedEntity")
    ELSE IF tel.k = "str"
    THEN IF tel.s \notin lk.type_strs THEN Raises("UnknownType")
         ELSE IF tel.s \in DOMAIN lk.value_for_type
         THEN Returns(lk.value_for_type[tel.s])
         ELSE Raises("UnresolvedEntity")
    ELSE Raises("TypeError")

\* mutant: a type is not checked against the known types of the subarray
getitem_no_known_types(lk, tel) ==
    IF tel = None
    THEN IF lk.global # Undefined THEN Returns(lk.global) ELSE Raises("NoDefault")
    ELSE IF ~lk.attached THEN Raises("NotBound")
    ELSE IF tel.k = "int"
    THEN IF tel.n \in DOMAIN lk.value_for_tel_id
         THEN Returns(lk.value_for_tel_id[tel.n])
         ELSE Raises("UnresolvedEntity")
    ELSE IF tel.k = "str"
    THEN IF tel.s \in DOMAIN lk.value_for_type
         THEN Returns(lk.value_for_type[tel.s])
         ELSE Raises("UnresolvedEntity")
    ELSE Raises("TypeError")

getitem(lk, tel) ==
    IF tel = None
    THEN IF lk.global # Undefined THEN Returns(lk.global) ELSE Raises("NoDefault")
    ELSE IF ~lk.attached THEN Raises("NotBound")
    ELSE IF tel.k = "int"
    THEN IF tel.n \in DOMAIN lk.value_for_tel_id
         THEN Returns(lk.value_for_tel_id[tel.n])
         ELSE Raises("UnresolvedEntity")
    ELSE IF tel.k = "str"
    THEN IF tel.s \notin lk.type_strs THEN Raises("UnknownType")
         ELSE IF tel.s \in DOMAIN lk.value_for_type
         THEN Returns(lk.value_for_type[tel.s])
         ELSE Raises("UnresolvedEntity")
    ELSE Raises("TypeError")

\* TelescopePatternList.tel, then the subscript
tel(lk, key) ==
    IF lk.exists THEN getitem(lk, key) ELSE Raises("NotBound")

(***************************************************************************)
(* TelescopePatternList: data is the list of patterns, lookup its _lookup  *)
(* and subarray its _subarray.                                             *)
(***************************************************************************)
TelescopePatternList ==
    [data |-> <<>>, lookup |-> NoLookup, subarray |-> NoSubarray]

\* what a list is given as an entry, or append() as a value: a tuple, or a
\* plain value that is no tuple
Tuple(items) == [form |-> "tuple", scalar |-> None, entry |-> items]

Plain(v) == [form |-> "scalar", scalar |-> v, entry |-> <<>>]

Ok(pl) == [exc |-> "none", pl |-> pl]

Fails(exc, pl) == [exc |-> exc, pl |-> pl]

\* a value that is not a pattern tuple becomes ("type", "*", value)
single_to_pattern(value) ==
    IF value.form # "tuple" \/ Len(value.entry) # 3
          \/ value.entry[1] \notin {TYPE, ID}
    THEN <<TYPE, STAR, value.scalar>>
    ELSE value.entry

\* TelescopePatternList.attach_subarray(subarray): _subarray is set before
\* _lookup is used, and a list without a lookup raises AttributeError
PatternList_attach_subarray(pl, subarray) ==
    IF pl.lookup.exists
    THEN Ok([pl EXCEPT !.subarray = subarray,
                       !.lookup = Lookup_attach_subarray(@, subarray)])
    ELSE Fails("AttributeError", [pl EXCEPT !.subarray = subarray])

\* mutant: append makes the lookup anew from the longer list
append_new_lookup(pl, v) ==
    LET data == Append(pl.data, single_to_pattern(v))
    IN IF pl.lookup.exists /\ pl.lookup.attached
       THEN [pl EXCEPT !.data = data,
                       !.lookup = Lookup_attach_subarray(
                                     TelescopeParameterLookup(data),
                                     pl.lookup.subarray)]
       ELSE [pl EXCEPT !.data = data,
                       !.lookup = TelescopeParameterLookup(data)]

\* TelescopePatternList.append(value)
append(pl, v) == [pl EXCEPT !.data = Append(@, single_to_pattern(v))]

(***************************************************************************)
(* TelescopeParameter with the Float trait (FloatTelescopeParameter) and   *)
(* the default allow_none.                                                 *)
(***************************************************************************)
allow_none == FALSE

\* Float().validate: a float is accepted, anything else is a TraitError
trait_validate(value) ==
    IF value.k = "float" THEN Returns(value) ELSE Raises("TraitError")

validate_entry(value) ==
    IF value = None /\ allow_none THEN Returns(None) ELSE trait_validate(value)

\* the raw values given to the trait: a single value, a list of entries, or
\* a TelescopePatternList (with its _subarray)
Scalar(v) ==
    [form |-> "scalar", scalar |-> v, entries |-> <<>>, subarray |-> NoSubarray]

RawList(entries) ==
    [form |-> "list", scalar |-> None, entries |-> entries,
     subarray |-> NoSubarray]

RawPatternList(pl) ==
    [form |-> "patternlist", scalar |-> None,
     entries |-> [i \in 1..Len(pl.data) |-> Tuple(pl.data[i])],
     subarray |-> pl.subarray]

\* "Support a single value for all": lines 573-574 and 617-618
single_value_to_list(value) ==
    IF value.form = "scalar"
    THEN LET v == validate_entry(value.scalar)
         IN IF v.exc # "none" THEN [exc |-> v.exc, value |-> value]
            ELSE [exc |-> "none",
                  value |-> RawList(<<Tuple(<<TYPE, STAR, v.val>>)>>)]
    ELSE [exc |-> "none", value |-> value]

\* len(pattern): a tuple has a length, a float has none (TypeError)
len(entry) ==
    IF entry.form = "tuple" THEN [exc |-> "none", n |-> Len(entry.entry)]
    ELSE [exc |-> "TypeError", n |-> 0]

\* the checks of one pattern, lines 582-606: the outcome is the normalized
\* (command, arg, val) or the exception
validate_pattern(entry) ==
    LET pattern == entry.entry
    IN
    IF len(entry).exc # "none" THEN [exc |-> len(entry).exc, pattern |-> pattern]
    ELSE IF len(entry).n # 3 THEN [exc |-> "TraitError", pattern |-> pattern]
    ELSE LET command == pattern[1]
             arg == pattern[2]
             val == validate_entry(pattern[3])
         IN IF val.exc # "none" THEN [exc |-> val.exc, pattern |-> pattern]
            ELSE IF command.k # "str"
            THEN [exc |-> "TraitError", pattern |-> pattern]
            ELSE IF command \notin {TYPE, ID}
            THEN [exc |-> "TraitError", pattern |-> pattern]
            ELSE IF command = TYPE
            THEN IF arg.k # "str"
                 THEN [exc |-> "TraitError", pattern |-> pattern]
                 ELSE [exc |-> validate_entry(val.val).exc,
                       pattern |-> <<command, arg, validate_entry(val.val).val>>]
            ELSE LET n == int(arg)
                 IN IF n.exc = "ValueError"
                    THEN [exc |-> "TraitError", pattern |-> pattern]
                    ELSE IF n.exc # "none"
                    THEN [exc |-> n.exc, pattern |-> pattern]
                    ELSE [exc |-> validate_entry(val.val).exc,
                          pattern |-> <<command, PyInt(n.n),
                                        validate_entry(val.val).val>>]

\* lines 607-611: append, make the lookup anew, and attach when the value
\* given is a TelescopePatternList with a subarray
validate_append(normalized_value, value, pattern) ==
    LET appended == [normalized_value EXCEPT
                        !.data = Append(@, single_to_pattern(Tuple(pattern)))]
        with_lookup == [appended EXCEPT
                           !.lookup = TelescopeParameterLookup(appended.data)]
    IN IF value.form = "patternlist" /\ value.subarray # NoSubarray
       THEN PatternList_attach_subarray(with_lookup, value.subarray)
       ELSE Ok(with_lookup)

RECURSIVE validate_loop(_, _, _)
validate_loop(normalized_value, value, i) ==
    IF i > Len(value.entries) THEN Ok(normalized_value)
    ELSE LET p == validate_pattern(value.entries[i])
         IN IF p.exc # "none" THEN Fails(p.exc, normalized_value)
            ELSE LET a == validate_append(normalized_value, value, p.pattern)
                 IN IF a.exc # "none" THEN a
                    ELSE validate_loop(a.pl, value, i + 1)

\* TelescopeParameter.validate(obj, value)
validate(value) ==
    LET v == single_value_to_list(value)
    IN IF v.exc # "none" THEN Fails(v.exc, TelescopePatternList)
       ELSE validate_loop(TelescopePatternList, v.value, 1)

\* mutant: the list normalized so far is stored when validate() raises
set_store_first(old_value, value) ==
    LET v == single_value_to_list(value)
    IN IF v.exc # "none" THEN Fails(v.exc, old_value)
       ELSE LET new == validate(v.value)
            IN IF new.exc # "none" THEN Fails(new.exc, new.pl)
               ELSE IF old_value.subarray # NoSubarray
               THEN PatternList_attach_subarray(new.pl, old_value.subarray)
               ELSE Ok(new.pl)

\* TelescopeParameter.set(obj, value): old_value is the value stored now;
\* the outcome is the value stored afterwards and the exception, if any
set(old_value, value) ==
    LET v == single_value_to_list(value)
    IN IF v.exc # "none" THEN Fails(v.exc, old_value)
       ELSE LET new == validate(v.value)
            IN IF new.exc # "none" THEN Fails(new.exc, old_value)
               ELSE IF old_value.subarray # NoSubarray
               THEN PatternList_attach_subarray(new.pl, old_value.subarray)
               ELSE Ok(new.pl)

(***************************************************************************)
(* The inputs of the model.                                                *)
(***************************************************************************)
L_STAR == PyStr(<<"L", "*">>)

Values == {PyFloat(1), PyFloat(2)}

ValidEntries ==
    { Tuple(<<TYPE, STAR, PyFloat(1)>>), Tuple(<<TYPE, L_STAR, PyFloat(2)>>),
      Tuple(<<ID, PyInt(5), PyFloat(2)>>),
      Tuple(<<ID, PyStr(<<"7">>), PyFloat(1)>>) }

InvalidEntries ==
    { Tuple(<<TYPE, STAR>>),                          \* arity 2
      Plain(PyFloat(1)),                              \* no tuple at all
      Tuple(<<PyStr(<<"T", "y", "p", "e">>), STAR, PyFloat(1)>>),  \* other case
      Tuple(<<PyInt(0), STAR, PyFloat(1)>>),          \* tag that is not a str
      Tuple(<<TYPE, PyInt(5), PyFloat(1)>>),          \* type argument not a str
      Tuple(<<ID, PyStr(<<"x">>), PyFloat(1)>>),      \* int() raises ValueError
      Tuple(<<ID, None, PyFloat(1)>>),                \* int() raises TypeError
      Tuple(<<TYPE, STAR, PyStr(<<"x">>)>>) }         \* value the trait rejects

RawEntries == ValidEntries \cup InvalidEntries

SeqsUpTo(S, n) == UNION {[1..m -> S] : m \in 0..n}

Scalars == {Scalar(v) : v \in Values \cup {None}}

\* every list of entries, valid or not: the inputs of SpecValidate
AllRawValues ==
    Scalars \cup {RawList(entries) : entries \in SeqsUpTo(RawEntries, MaxRules)}

\* the inputs of Spec: every list of valid entries, and two lists that
\* validate() refuses
RawValues ==
    Scalars
        \cup {RawList(entries) : entries \in SeqsUpTo(ValidEntries, MaxRules)}
        \cup {RawList(<<Tuple(<<TYPE, STAR>>)>>),
              RawList(<<Tuple(<<ID, None, PyFloat(1)>>)>>)}

Keys == {None, PyInt(5), PyInt(7), PyStr(LA), PyStr(MB)}

AppendValues == {Plain(PyFloat(2))}

(***************************************************************************)
(* The Path trait.  A pathlib.Path is known by its string, a bytes value   *)
(* by its (ASCII) characters, a bool by 0 or 1.                            *)
(***************************************************************************)
PyBytes(s) == [k |-> "bytes", s |-> s, n |-> 0]

PyPath(s) == [k |-> "Path", s |-> s, n |-> 0]

PyBool(b) == [k |-> "bool", s |-> <<>>, n |-> IF b THEN 1 ELSE 0]

LowerChars ==
    <<"a", "b", "c", "d", "e", "f", "g", "h", "i", "j", "k", "l", "m",
      "n", "o", "p", "q", "r", "s", "t", "u", "v", "w", "x", "y", "z">>

UpperChars ==
    <<"A", "B", "C", "D", "E", "F", "G", "H", "I", "J", "K", "L", "M",
      "N", "O", "P", "Q", "R", "S", "T", "U", "V", "W", "X", "Y", "Z">>

isupper(c) == \E i \in 1..Len(UpperChars) : UpperChars[i] = c

isalpha(c) == isupper(c) \/ \E i \in 1..Len(LowerChars) : LowerChars[i] = c

lower(c) ==
    IF isupper(c)
    THEN LowerChars[CHOOSE i \in 1..Len(UpperChars) : UpperChars[i] = c]
    ELSE c

\* \w of the re module, for ASCII text
IsWordChar(c) == isalpha(c) \/ IsDigit(c) \/ c = "_"

\* urllib.parse.scheme_chars
IsSchemeChar(c) == isalpha(c) \/ IsDigit(c) \/ c \in {"+", "-", "."}

\* s.find(one of chars) from position from on; Len(s) + 1 when there is none
FindAny(s, chars, from) ==
    LET ps == {p \in from..Len(s) : s[p] \in chars}
    IN IF ps = {} THEN Len(s) + 1
       ELSE CHOOSE p \in ps : \A q \in ps : p <= q

\* the first position from from on whose character is not in chars
FindNone(s, chars, from) ==
    LET ps == {p \in from..Len(s) : s[p] \notin chars}
    IN IF ps = {} THEN Len(s) + 1
       ELSE CHOOSE p \in ps : \A q \in ps : p <= q

\* s[from - 1:] in Python's notation
From(s, from) == SubSeq(s, from, Len(s))

\* os.fsdecode of ASCII bytes: a str of the same characters
fsdecode(value) == PyStr(value.s)

\* os.environ: E is set to the empty string, U to "/d", nothing else is set
environ ==
    [name \in {<<"E">>, <<"U">>} |->
        IF name = <<"E">> THEN <<>> ELSE <<"/", "d">>]

\* posixpath._varprog, \$(\w+|\{[^}]*\}), matched at a "$" that heads s:
\* the length of the match (0 for no match) and the variable it names
varprog(s) ==
    LET w == CHOOSE p \in 2..Len(s) + 1 :
                 /\ \A q \in 2..p - 1 : IsWordChar(s[q])
                 /\ p <= Len(s) => ~IsWordChar(s[p])
        close == FindAny(s, {"}"}, 3)
    IN IF w > 2 THEN [len |-> w - 1, name |-> SubSeq(s, 2, w - 1)]
       ELSE IF Len(s) >= 2 /\ s[2] = "{" /\ close <= Len(s)
            THEN [len |-> close, name |-> SubSeq(s, 3, close - 1)]
            ELSE [len |-> 0, name |-> <<>>]

RECURSIVE expand(_)
expand(s) ==
    IF s = <<>> THEN <<>>
    ELSE IF Head(s) # "$" THEN <<Head(s)>> \o expand(Tail(s))
    ELSE LET m == varprog(s)
         IN IF m.len = 0 THEN <<"$">> \o expand(Tail(s))
            ELSE (IF m.name \in DOMAIN environ THEN environ[m.name]
                  ELSE SubSeq(s, 1, m.len))
                     \o expand(From(s, m.len + 1))

\* os.path.expandvars: os.fspath makes a str of a Path, then every $name
\* and ${name} that is set is replaced; the replacement is not expanded
\* again
expandvars(value) == PyStr(expand(value.s))

\* urllib.parse.uses_params, as far as the schemes of the model go
uses_params ==
    {<<>>, <<"f", "t", "p">>, <<"h", "t", "t", "p">>,
     <<"h", "t", "t", "p", "s">>}

\* urllib.parse._splitparams(url)[0]: the url up to the first ";" of its
\* last segment
splitparams(url) ==
    LET slashes == {p \in 1..Len(url) : url[p] = "/"}
        rfind == IF slashes = {} THEN 1
                 ELSE CHOOSE p \in slashes : \A q \in slashes : q <= p
    IN SubSeq(url, 1, FindAny(url, {";"}, rfind) - 1)

\* urllib.parse.urlparse(url) for ASCII text without blanks and control
\* characters: scheme (in lower case), netloc and path; ValueError for an
\* unmatched bracket in the netloc
urlparse(url) ==
    LET i == FindAny(url, {":"}, 1)
        has_scheme == /\ i > 1
                      /\ i <= Len(url)
                      /\ isalpha(url[1])
                      /\ \A p \in 1..i - 1 : IsSchemeChar(url[p])
        scheme == IF has_scheme THEN [p \in 1..i - 1 |-> lower(url[p])]
                  ELSE <<>>
        rest == IF has_scheme THEN From(url, i + 1) ELSE url
        has_netloc == Len(rest) >= 2 /\ rest[1] = "/" /\ rest[2] = "/"
        delim == FindAny(rest, {"/", "?", "#"}, 3)
        netloc == IF has_netloc THEN SubSeq(rest, 3, delim - 1) ELSE <<>>
        after == IF has_netloc THEN From(rest, delim) ELSE rest
        brackets == {c \in {"[", "]"} : \E p \in 1..Len(netloc) : netloc[p] = c}
        nofragment == SubSeq(after, 1, FindAny(after, {"#"}, 1) - 1)
        noquery == SubSeq(nofragment, 1, FindAny(nofragment, {"?"}, 1) - 1)
    IN [exc |-> IF Cardinality(brackets) = 1 THEN "ValueError" ELSE "none",
        scheme |-> scheme,
        netloc |-> netloc,
        path |-> IF scheme \in uses_params THEN splitparams(noquery)
                 ELSE noquery]

DATASET == <<"d", "a", "t", "a", "s", "e", "t">>

\* value.partition("dataset://")[2]: what follows the first "dataset://",
\* nothing when the text has none
partition_dataset(s) ==
    LET sep == DATASET \o <<":", "/", "/">>
        ps == {p \in 1..Len(s) - Len(sep) + 1 :
                   SubSeq(s, p, p + Len(sep) - 1) = sep}
    IN IF ps = {} THEN <<>>
       ELSE From(s, (CHOOSE p \in ps : \A q \in ps : p <= q) + Len(sep))

\* the parts of a POSIX path: split at "/", empty parts and "." dropped
RECURSIVE path_parts(_, _)
path_parts(s, part) ==
    LET kept == IF part \in {<<>>, <<".">>} THEN <<>> ELSE <<part>>
    IN IF s = <<>> THEN kept
       ELSE IF Head(s) = "/" THEN kept \o path_parts(Tail(s), <<>>)
       ELSE path_parts(Tail(s), Append(part, Head(s)))

RECURSIVE join_parts(_)
join_parts(parts) ==
    IF parts = <<>> THEN <<>>
    ELSE IF Len(parts) = 1 THEN Head(parts)
    ELSE Head(parts) \o <<"/">> \o join_parts(Tail(parts))

\* pathlib.Path(a, b) on a POSIX system, as its string: b alone when b is
\* absolute; exactly two leading slashes are kept, any other run of slashes
\* is one slash; "." for the empty path
pathlib_Path(a, b) ==
    LET joined == IF b # <<>> /\ Head(b) = "/" THEN b
                  ELSE IF a = <<>> THEN b
                  ELSE a \o <<"/">> \o b
        lead == FindNone(joined, {"/"}, 1) - 1
        root == IF lead = 0 THEN <<>>
                ELSE IF lead = 2 THEN <<"/", "/">>
                ELSE <<"/">>
        str == root \o join_parts(path_parts(joined, <<>>))
    IN PyPath(IF str = <<>> THEN <<".">> ELSE str)

\* os.getcwd()
cwd == <<"/", "w">>

\* pathlib.Path.absolute(): an absolute path is itself, any other path is
\* put under the working directory
absolute(p) ==
    IF Head(p.s) = "/" THEN p
    ELSE IF p.s = <<".">> THEN PyPath(cwd)
    ELSE PyPath(cwd \o <<"/">> \o p.s)

\* What the file system has at a path: nothing, a regular file, a
\* directory, or something that is neither (a device, a socket)
Kinds == {"missing", "file", "dir", "other"}

exists(kind) == kind # "missing"

is_dir(kind) == kind = "dir"

is_file(kind) == kind = "file"

\* ctapipe.utils.download.download_cached(url, progress=True): the path of
\* the cached file, or the error of a failed download
CachePath == PyPath(<<"/", "c", "/", "f">>)

download_cached(url, io) ==
    IF io.online THEN Returns(CachePath) ELSE Raises("HTTPError")

\* ctapipe.utils.get_dataset_path(name): the absolute path of the file
\* found for name under the search path /s, or FileNotFoundError
get_dataset_path(name, io) ==
    IF io.found THEN Returns(pathlib_Path(<<"/", "s">>, name))
    ELSE Raises("FileNotFoundError")

\* the outcome of Path.validate: a returned value, or an exception with
\* the kind of its message; calls are the calls made to download_cached
\* and get_dataset_path
PathReturns(result, calls) ==
    [exc |-> "none", msg |-> "", result |-> result, calls |-> calls]

PathRaises(exc, msg, calls) ==
    [exc |-> exc, msg |-> msg, result |-> None, calls |-> calls]

CallOf(f, arg, r) == [f |-> f, arg |-> arg, exc |-> r.exc, ret |-> r.val]

\* self.error(obj, value)
Path_error == PathRaises("TraitError", "error", <<>>)

\* mutant: exists=None is compared like a bool
Path_check_none_is_false(self, value, kind, calls) ==
    IF PyBool(exists(kind)) # self.exists
    THEN PathRaises("TraitError",
                    IF self.exists = PyBool(TRUE) THEN "does not exist"
                    ELSE "must not exist", calls)
    ELSE IF exists(kind) /\ ~self.directory_ok /\ is_dir(kind)
    THEN PathRaises("TraitError", "must not be a directory", calls)
    ELSE IF exists(kind) /\ ~self.file_ok /\ is_file(kind)
    THEN PathRaises("TraitError", "must not be a file", calls)
    ELSE PathReturns(value, calls)

\* lines 187-202 of Path.validate: value is the absolute path, kind what
\* the file system has there
Path_check(self, value, kind, calls) ==
    IF self.exists # None /\ PyBool(exists(kind)) # self.exists
    THEN PathRaises("TraitError",
                    IF self.exists = PyBool(TRUE) THEN "does not exist"
                    ELSE "must not exist", calls)
    ELSE IF exists(kind) /\ ~self.directory_ok /\ is_dir(kind)
    THEN PathRaises("TraitError", "must not be a directory", calls)
    ELSE IF exists(kind) /\ ~self.file_ok /\ is_file(kind)
    THEN PathRaises("TraitError", "must not be a file", calls)
    ELSE PathReturns(value, calls)

\* mutant: a scheme that is not known is downloaded
Path_resolve_download_unknown(value, io) ==
    LET url == urlparse(value.s)
        download == download_cached(value, io)
        dataset == get_dataset_path(partition_dataset(value.s), io)
    IN IF value.s = <<>> THEN Path_error
       ELSE IF url.exc = "ValueError" THEN Path_error
       ELSE IF url.scheme = DATASET
       THEN [exc |-> dataset.exc, msg |-> "", result |-> dataset.val,
             calls |-> <<CallOf("get_dataset_path",
                                PyStr(partition_dataset(value.s)), dataset)>>]
       ELSE IF url.scheme \in {<<>>, <<"f", "i", "l", "e">>}
       THEN PathReturns(pathlib_Path(url.netloc, url.path), <<>>)
       ELSE [exc |-> download.exc, msg |-> "", result |-> download.val,
             calls |-> <<CallOf("download_cached", value, download)>>]

\* lines 162-185 of Path.validate: the pathlib.Path meant by the text value
Path_resolve(value, io) ==
    LET url == urlparse(value.s)
        download == download_cached(value, io)
        dataset == get_dataset_path(partition_dataset(value.s), io)
    IN IF value.s = <<>> THEN Path_error
       ELSE IF url.exc = "ValueError" THEN Path_error
       ELSE IF url.scheme \in {<<"h", "t", "t", "p">>,
                               <<"h", "t", "t", "p", "s">>}
       THEN [exc |-> download.exc, msg |-> "", result |-> download.val,
             calls |-> <<CallOf("download_cached", value, download)>>]
       ELSE IF url.scheme = DATASET
       THEN [exc |-> dataset.exc, msg |-> "", result |-> dataset.val,
             calls |-> <<CallOf("get_dataset_path",
                                PyStr(partition_dataset(value.s)), dataset)>>]
       ELSE IF url.scheme \in {<<>>, <<"f", "i", "l", "e">>}
       THEN PathReturns(pathlib_Path(url.netloc, url.path), <<>>)
       ELSE Path_error

\* Path.validate(obj, value).  self holds exists, directory_ok, file_ok and
\* allow_none; io is the world outside: what the file system has at the
\* path, and whether the download and the search for a dataset succeed
Path_validate(self, value, io) ==
    LET decoded == IF value.k = "bytes" THEN fsdecode(value) ELSE value
        resolved == Path_resolve(expandvars(decoded), io)
    IN IF decoded \in {None, Undefined}
       THEN IF self.allow_none THEN PathReturns(decoded, <<>>)
            ELSE Path_error
       ELSE IF decoded.k \notin {"str", "Path"} THEN Path_error
       ELSE IF resolved.exc # "none" THEN resolved
       ELSE Path_check(self, absolute(resolved.result), io.kind,
                       resolved.calls)

(***************************************************************************)
(* The ComponentName trait.  The component classes are known by name;      *)
(* subclasses is what cls.non_abstract_subclasses() enumerates when it is  *)
(* called.                                                                 *)
(***************************************************************************)
\* the enumeration when the trait is constructed
InitialSubclasses == {PyStr(<<"A">>)}

\* mutant: the enumeration of the time of construction is used
ComponentName_validate_snapshot(self, subclasses, value) ==
    IF self.allow_none /\ value = None THEN Returns(None)
    ELSE IF value \in InitialSubclasses THEN Returns(value)
    ELSE Raises("TraitError")

\* ComponentName.validate(obj, value)
ComponentName_validate(self, subclasses, value) ==
    IF self.allow_none /\ value = None THEN Returns(None)
    ELSE IF value \in subclasses THEN Returns(value)
    ELSE Raises("TraitError")

(***************************************************************************)
(* The state: one object with a TelescopeParameter trait, a Path trait and *)
(* a ComponentName trait, and the component classes that are defined.      *)
(*   value       the TelescopePatternList stored for the trait             *)
(*   origin      the form of the raw value it was made from (history)      *)
(*   last        the last call: its outcome, and the _subarray of the      *)
(*               value when it was made (history)                          *)
(*   path        the Path trait and its last validate call (history)       *)
(*   subclasses  what cls.non_abstract_subclasses() enumerates now         *)
(*   component   the ComponentName trait, its last validate call and the   *)
(*               call before that (history)                                *)
(***************************************************************************)
VARIABLES value, origin, last, path, subclasses, component

vars == <<value, origin, last, path, subclasses, component>>

parameter == <<value, origin, last>>

fields == <<path, subclasses, component>>

\* Path(exists=..., directory_ok=..., file_ok=..., allow_none=...)
PathTrait(exists_, directory_ok, file_ok, allow_none_) ==
    [exists |-> exists_, directory_ok |-> directory_ok, file_ok |-> file_ok,
     allow_none |-> allow_none_]

World(kind, online, found) ==
    [kind |-> kind, online |-> online, found |-> found]

PathCall(op, self, raw, io, r) ==
    [op |-> op, self |-> self, value |-> raw, io |-> io, exc |-> r.exc,
     msg |-> r.msg, result |-> r.result, calls |-> r.calls]

\* a Path trait with the defaults of Path.__init__, never validated
NoPathCall ==
    PathCall("init", PathTrait(None, TRUE, TRUE, FALSE), None,
             World("missing", FALSE, FALSE), PathReturns(None, <<>>))

NoComponentCall == [op |-> "init", value |-> None, exc |-> "none", val |-> None]

ComponentCall(self, op, raw, r, prev) ==
    [self |-> self, op |-> op, value |-> raw, exc |-> r.exc, val |-> r.val,
     prev |-> prev]

\* the traits that a specification leaves alone
IdleFields ==
    /\ path = NoPathCall
    /\ subclasses = InitialSubclasses
    /\ component = ComponentCall([allow_none |-> FALSE], "init", None,
                                 Returns(None), NoComponentCall)

Origin(raw) == [form |-> raw.form, scalar |-> raw.scalar]

NoRaw == RawList(<<>>)

Call(op, exc, key, val, raw, prev) ==
    [op |-> op, exc |-> exc, key |-> key, val |-> val, raw |-> raw,
     prev |-> prev]

\* the trait is constructed with a default the trait accepts, and the
\* object's first value is validate(default)
Init ==
    \E raw \in RawValues :
        /\ validate(raw).exc = "none"
        /\ value = validate(raw).pl
        /\ origin = Origin(raw)
        /\ last = Call("init", "none", None, None, raw, NoSubarray)
        /\ IdleFields

\* obj.param = raw
Set(raw) ==
    LET r == set(value, raw)
    IN /\ value' = r.pl
       /\ origin' = IF r.exc \in {"TraitError", "TypeError"} THEN origin
                    ELSE Origin(raw)
       /\ last' = Call("set", r.exc, None, None, raw, value.subarray)
       /\ UNCHANGED fields

SetValue == \E raw \in RawValues : Set(raw)

\* obj.param = obj.param: the raw value is a TelescopePatternList
SetPatternList == Set(RawPatternList(value))

\* obj.param.attach_subarray(subarray); last.val is the number of warnings
\* logged
AttachSubarray ==
    \E subarray \in Subarrays :
        LET r == PatternList_attach_subarray(value, subarray)
        IN /\ value' = r.pl
           /\ last' = Call("attach", r.exc, None,
                           PyInt(Cardinality(
                               attach_warnings(value.lookup, subarray))),
                           NoRaw, value.subarray)
           /\ UNCHANGED <<origin, fields>>

\* obj.param.tel[key]
Lookup ==
    \E key \in Keys :
        LET r == tel(value.lookup, key)
        IN /\ last' = Call("lookup", r.exc, key, r.val, NoRaw, value.subarray)
           /\ UNCHANGED <<value, origin, fields>>

\* obj.param.append(v)
AppendPattern ==
    \E v \in AppendValues :
        /\ Len(value.data) < MaxRules
        /\ value' = append(value, v)
        /\ last' = Call("append", "none", None, None, NoRaw, value.subarray)
        /\ UNCHANGED <<origin, fields>>

Next ==
    \/ SetValue
    \/ SetPatternList
    \/ AttachSubarray
    \/ Lookup
    \/ AppendPattern

Spec == Init /\ [][Next]_vars

(***************************************************************************)
(* SpecValidate: one assignment of any raw value, well formed or not, to   *)
(* a trait whose value was made from the default 1.0 and is either not     *)
(* attached or attached to subarray A.                                     *)
(***************************************************************************)
InitValidate ==
    /\ \E r \in {Ok(validate(Scalar(PyFloat(1))).pl),
                 PatternList_attach_subarray(validate(Scalar(PyFloat(1))).pl, "A")} :
          value = r.pl
    /\ origin = Origin(Scalar(PyFloat(1)))
    /\ last = Call("init", "none", None, None, Scalar(PyFloat(1)), NoSubarray)
    /\ IdleFields

SetAnyValue ==
    /\ last.op = "init"
    /\ \E raw \in AllRawValues : Set(raw)

NextValidate == SetAnyValue

SpecValidate == InitValidate /\ [][NextValidate]_vars

\* the TelescopeParameter of a specification that leaves it alone: the
\* value made from the default 1.0
IdleParameter ==
    /\ value = validate(Scalar(PyFloat(1))).pl
    /\ origin = Origin(Scalar(PyFloat(1)))
    /\ last = Call("init", "none", None, None, Scalar(PyFloat(1)), NoSubarray)

(***************************************************************************)
(* SpecPath: a Path trait of any configuration validates one value, any    *)
(* value in any world.  Path.validate keeps nothing from call to call.     *)
(***************************************************************************)
HTTP_URL == <<"h", "t", "t", "p", ":", "/", "/", "h", "/", "f">>

HTTPS_URL == <<"H", "T", "T", "P", "S", ":", "/", "/", "h", "/", "f">>

DATASET_URL == DATASET \o <<":", "/", "/", "n">>

\* values that name a local path: plain text, bytes, a pathlib.Path, a
\* file URL, text with a variable, with a fragment and with parameters
LocalValues ==
    { PyStr(<<"/", "d">>), PyStr(<<"f">>), PyBytes(<<"/", "d">>),
      PyPath(<<"/", "d">>),
      PyStr(<<"f", "i", "l", "e", ":", "/", "/", "/", "d">>),
      PyStr(<<"$", "U", "/", "f">>), PyStr(<<"f", "#", "x">>),
      PyStr(<<"f", ";", "p">>) }

HttpValues == {PyStr(HTTP_URL), PyStr(HTTPS_URL), PyBytes(HTTP_URL)}

DatasetValues ==
    { PyStr(DATASET_URL),
      PyStr(<<"D", "A", "T", "A", "S", "E", "T", ":", "/", "/", "n">>),
      PyStr(DATASET \o <<":", "n">>) }

\* text with a scheme that Path does not know
OtherSchemeValues ==
    {PyStr(<<"f", "t", "p", ":", "/", "/", "h", "/", "f">>),
     PyStr(<<"a", ":", "b">>)}

\* nothing, the empty text, text that expands to the empty text
EmptyValues == {None, Undefined, PyStr(<<>>), PyBytes(<<>>), PyStr(<<"$", "E">>)}

\* a value of another type, and a URL that urlparse refuses
MalformedValues ==
    {PyInt(1), PyStr(<<"h", "t", "t", "p", ":", "/", "/", "[", "x">>)}

PathValues ==
    LocalValues \cup HttpValues \cup DatasetValues \cup OtherSchemeValues
        \cup EmptyValues \cup MalformedValues

PathTraits ==
    {PathTrait(e, d, f, a) :
        e \in {None, PyBool(TRUE), PyBool(FALSE)}, d \in BOOLEAN,
        f \in BOOLEAN, a \in BOOLEAN}

Worlds == {World(k, o, f) : k \in Kinds, o \in BOOLEAN, f \in BOOLEAN}

InitPath ==
    /\ IdleParameter
    /\ \E self \in PathTraits :
           path = PathCall("init", self, None, World("missing", FALSE, FALSE),
                           PathReturns(None, <<>>))
    /\ subclasses = InitialSubclasses
    /\ component = ComponentCall([allow_none |-> FALSE], "init", None,
                                 Returns(None), NoComponentCall)

\* self.validate(obj, raw)
ValidatePath ==
    \E raw \in PathValues, io \in Worlds :
        /\ path.op = "init"
        /\ path' = PathCall("validate", path.self, raw, io,
                            Path_validate(path.self, raw, io))
        /\ UNCHANGED <<parameter, subclasses, component>>

NextPath == ValidatePath

SpecPath == InitPath /\ [][NextPath]_vars

(***************************************************************************)
(* SpecComponent: a ComponentName trait validates names while component    *)
(* classes get defined.                                                    *)
(***************************************************************************)
ComponentNames == {PyStr(<<"A">>), PyStr(<<"B">>), PyStr(<<"C">>)}

NameValues == ComponentNames \cup {None}

InitComponent ==
    /\ IdleParameter
    /\ path = NoPathCall
    /\ subclasses = InitialSubclasses
    /\ \E a \in BOOLEAN :
           component = ComponentCall([allow_none |-> a], "init", None,
                                     Returns(None), NoComponentCall)

\* class name(cls): a concrete subclass of cls is defined
DefineSubclass ==
    \E name \in ComponentNames \ subclasses :
        /\ subclasses' = subclasses \cup {name}
        /\ UNCHANGED <<parameter, path, component>>

\* self.validate(obj, raw)
ValidateComponentName ==
    \E raw \in NameValues :
        /\ component' =
               ComponentCall(component.self, "validate", raw,
                             ComponentName_validate(component.self,
                                                    subclasses, raw),
                             [op |-> component.op, value |-> component.value,
                              exc |-> component.exc, val |-> component.val])
        /\ UNCHANGED <<parameter, path, subclasses>>

NextComponent ==
    \/ DefineSubclass
    \/ ValidateComponentName

SpecComponent == InitComponent /\ [][NextComponent]_vars

(***************************************************************************)
(* Properties.  "The rules" of a lookup are the patterns it was made from  *)
(* (value.lookup.params); Bound says the list has a lookup and the lookup  *)
(* has been attached.                                                      *)
(***************************************************************************)
Bound == value.lookup.exists /\ value.lookup.attached

Rules == value.lookup.params

IdUniverse == {5, 7, 9}

TypeUniverse == {LA, MB}

\* rule r touches id in subarray: an id rule for it, or a type rule whose
\* pattern matches a type of the subarray that has id as a member
Touches(r, id, subarray) ==
    \/ r[1] = ID /\ r[2] = PyInt(id)
    \/ /\ r[1] = TYPE
       /\ \E t \in telescope_types(subarray) :
             fnmatch(t, r[2].s) /\ id \in get_tel_ids_for_type(subarray, t)

\* type rule r matches the type t
MatchesType(r, t) == r[1] = TYPE /\ fnmatch(t, r[2].s)

IsStarRule(r) == r[1] = TYPE /\ r[2] = STAR

\* the value of the last rule of rules, in list order, whose index is in S
LastOf(rules, S) == rules[CHOOSE i \in S : \A j \in S : j <= i][3]

TouchingId(rules, id, subarray) ==
    {i \in 1..Len(rules) : Touches(rules[i], id, subarray)}

MatchingType(rules, t) == {i \in 1..Len(rules) : MatchesType(rules[i], t)}

StarRules(rules) == {i \in 1..Len(rules) : IsStarRule(rules[i])}

ExpectedForId(rules, id, subarray) ==
    IF TouchingId(rules, id, subarray) = {} THEN Raises("UnresolvedEntity")
    ELSE Returns(LastOf(rules, TouchingId(rules, id, subarray)))

ExpectedForType(rules, t, subarray) ==
    IF t \notin telescope_types(subarray) THEN Raises("UnknownType")
    ELSE IF MatchingType(rules, t) = {} THEN Raises("UnresolvedEntity")
    ELSE Returns(LastOf(rules, MatchingType(rules, t)))

ExpectedForNone(rules) ==
    IF StarRules(rules) = {} THEN Raises("NoDefault")
    ELSE Returns(LastOf(rules, StarRules(rules)))

LastResult == [exc |-> last.exc, val |-> last.val]

\* C1: strict list-order precedence.  On an attached lookup, lookup(id)
\* returns the value of the last rule in list order that touches id (an id
\* rule for id, or a type rule matching a type of the subarray that has id
\* as a member), and fails with UnresolvedEntity exactly when no rule
\* touches id; so does the lookup that was made last.
C1_ListOrderPrecedence ==
    Bound =>
      /\ \A id \in IdUniverse :
            tel(value.lookup, PyInt(id))
               = ExpectedForId(Rules, id, value.lookup.subarray)
      /\ (last.op = "lookup" /\ last.key.k = "int") =>
            LastResult = ExpectedForId(Rules, last.key.n, value.lookup.subarray)

\* C1 witness: rules [(id,5,2.0), (type,"*",1.0)] attached to subarray A,
\* where telescope 5 has type LA: lookup(5) returned 1.0
C1_Witness ==
    /\ Bound
    /\ Rules = << <<ID, PyInt(5), PyFloat(2)>>, <<TYPE, STAR, PyFloat(1)>> >>
    /\ value.lookup.subarray = "A"
    /\ last.op = "lookup" /\ last.key = PyInt(5)
    /\ last.exc = "none" /\ last.val = PyFloat(1)

\* C2: scalar form.  A value made from the scalar v and attached to any
\* subarray, also one without telescope types, has the single rule
\* (type,"*",v), lookup(None) = v and lookup(id) = v for every telescope id
\* of the subarray.
C2_ScalarForm ==
    (origin.form = "scalar" /\ Bound) =>
      /\ Rules = << <<TYPE, STAR, origin.scalar>> >>
      /\ tel(value.lookup, None) = Returns(origin.scalar)
      /\ \A t \in telescope_types(value.lookup.subarray) :
            \A id \in get_tel_ids_for_type(value.lookup.subarray, t) :
               tel(value.lookup, PyInt(id)) = Returns(origin.scalar)
      /\ (last.op = "lookup" /\ last.key = None) =>
            LastResult = Returns(origin.scalar)

\* C2 witness: the scalar 2.0, attached to the subarray E that has no
\* telescope types: lookup(None) returned 2.0
C2_Witness ==
    /\ origin = Origin(Scalar(PyFloat(2)))
    /\ Bound /\ value.lookup.subarray = "E"
    /\ last.op = "lookup" /\ last.key = None
    /\ last.exc = "none" /\ last.val = PyFloat(2)

\* the maps of a lookup made anew from rules and attached only to subarray
Fresh(rules, subarray) ==
    Lookup_attach_subarray(TelescopeParameterLookup(rules), subarray)

SameMaps(lk1, lk2) ==
    /\ lk1.value_for_tel_id = lk2.value_for_tel_id
    /\ lk1.value_for_type = lk2.value_for_type
    /\ lk1.type_strs = lk2.type_strs

\* C3: assignment preserves a live binding.  After any valid raw value is
\* assigned to a trait whose value had a subarray, the new value is
\* attached to that subarray and its maps are those of the new rules
\* replayed against it.
C3_AssignmentKeepsBinding ==
    (last.op = "set" /\ last.prev # NoSubarray
        /\ validate(last.raw).exc = "none") =>
      /\ last.exc = "none"
      /\ Bound
      /\ value.subarray = last.prev
      /\ value.lookup.subarray = last.prev
      /\ SameMaps(value.lookup, Fresh(value.data, last.prev))

\* C4: re-attach recomputes from scratch.  The maps of an attached lookup
\* are those of a lookup made anew from the same rules and attached only to
\* the present subarray, and no key of an earlier subarray is left.
C4_ReattachFromScratch ==
    Bound =>
      /\ SameMaps(value.lookup, Fresh(Rules, value.lookup.subarray))
      /\ DOMAIN value.lookup.value_for_type
            \subseteq telescope_types(value.lookup.subarray)
      /\ \A id \in DOMAIN value.lookup.value_for_tel_id :
            TouchingId(Rules, id, value.lookup.subarray) # {}

\* C4 witness: a list with the rule (type,"L*",2.0) and a lookup attached
\* to A is attached to B, which has no type matching "L*": no type and no
\* id has a value from that rule
C4_Witness ==
    /\ last.op = "attach" /\ last.prev = "A"
    /\ Bound /\ value.lookup.subarray = "B"
    /\ Rules = << <<TYPE, L_STAR, PyFloat(2)>> >>
    /\ value.lookup.value_for_type = EmptyDict
    /\ value.lookup.value_for_tel_id = EmptyDict

\* C5 as stated: every lookup made before attach_subarray, lookup(None)
\* included, fails with NotBound and returns no value.
C5_EveryLookupNotBound ==
    (last.op = "lookup" /\ ~Bound) => (last.exc = "NotBound" /\ last.val = None)

\* C5 amended: before attach_subarray a lookup by telescope id or by type
\* fails with NotBound and returns no value; lookup(None) on a lookup that
\* is not attached returns the value of the last (type,"*",_) rule, or fails
\* with NoDefault when there is none; a list without lookup (no rules)
\* fails with NotBound for every key.
C5_NotBoundByIdOrType ==
    ~Bound =>
      /\ \A key \in Keys \ {None} : tel(value.lookup, key) = Raises("NotBound")
      /\ tel(value.lookup, None)
            = IF value.lookup.exists THEN ExpectedForNone(Rules)
              ELSE Raises("NotBound")
      /\ last.op = "lookup" =>
            LastResult = IF last.key = None /\ value.lookup.exists
                         THEN ExpectedForNone(Rules)
                         ELSE Raises("NotBound")

\* C5 witness: lookup(None) on a lookup with the rule (type,"*",1.0) that was
\* never attached returned 1.0
C5_Witness ==
    /\ value.lookup.exists /\ ~value.lookup.attached
    /\ value.subarray = NoSubarray
    /\ IsStarRule(Rules[1])
    /\ last.op = "lookup" /\ last.key = None
    /\ last.exc = "none" /\ last.val = PyFloat(1)

\* C6: on an attached lookup, lookup(None) fails with NoDefault if and only
\* if the rules have no (type,"*",_) rule, and returns the value of the last
\* such rule otherwise.
C6_GlobalDefault ==
    Bound =>
      /\ tel(value.lookup, None) = ExpectedForNone(Rules)
      /\ (tel(value.lookup, None).exc = "NoDefault") <=> (StarRules(Rules) = {})
      /\ (last.op = "lookup" /\ last.key = None) =>
            LastResult = ExpectedForNone(Rules)

\* C6 witness: with two (type,"*",_) rules of values 1.0 then 2.0, attached,
\* lookup(None) returned 2.0
C6_Witness ==
    /\ Bound
    /\ Rules = << <<TYPE, STAR, PyFloat(1)>>, <<TYPE, STAR, PyFloat(2)>> >>
    /\ last.op = "lookup" /\ last.key = None
    /\ last.exc = "none" /\ last.val = PyFloat(2)

\* C7: on an attached lookup, lookup(type t) fails with UnknownType when t
\* is no type of the subarray (whatever the rules match), fails with
\* UnresolvedEntity when t is known and no type rule matches it, and
\* otherwise returns the value of the last matching type rule; id rules do
\* not count.
C7_TypeLookup ==
    Bound =>
      /\ \A t \in TypeUniverse :
            tel(value.lookup, PyStr(t))
               = ExpectedForType(Rules, t, value.lookup.subarray)
      /\ (last.op = "lookup" /\ last.key.k = "str") =>
            LastResult
               = ExpectedForType(Rules, last.key.s, value.lookup.subarray)

\* C7 witness: rules [(type,"*",1.0)] attached to B, which has no type LA:
\* lookup("LA") failed with UnknownType although "*" matches "LA"
C7_Witness ==
    /\ Bound /\ value.lookup.subarray = "B"
    /\ Rules = << <<TYPE, STAR, PyFloat(1)>> >>
    /\ last.op = "lookup" /\ last.key = PyStr(LA)
    /\ last.exc = "UnknownType"

\* C8: binding lifecycle.  A lookup is not attached when it is made; every
\* attach_subarray on a list with a lookup leaves it attached to the
\* subarray given; and attach_subarray, lookups and append never take an
\* attached lookup back: it stays attached and no lookup by id or by type
\* fails with NotBound.
C8_Lifecycle ==
    /\ [](last.op = "init" => ~value.lookup.attached)
    /\ []((last.op = "attach" /\ value.lookup.exists) =>
            (value.lookup.attached /\ value.lookup.subarray = value.subarray))
    /\ [][(Bound /\ last'.op \in {"attach", "lookup", "append"}) =>
            /\ value'.lookup.exists /\ value'.lookup.attached
            /\ (last'.op = "lookup" /\ last'.key # None) =>
                  last'.exc # "NotBound"]_vars

\* C8 witness: a lookup attached to A has been attached again, to E
C8_Witness ==
    /\ last.op = "attach" /\ last.prev = "A"
    /\ Bound /\ value.lookup.subarray = "E"

HasBadShape(raw) ==
    /\ raw.form = "list"
    /\ \E i \in 1..Len(raw.entries) :
          \/ raw.entries[i].form # "tuple"
          \/ Len(raw.entries[i].entry) # 3
          \/ raw.entries[i].entry[1] \notin {TYPE, ID}

\* C9: rule-shape validation is eager.  Assigning a list with an entry that
\* is not a tuple of 3, or whose tag is not "type" or "id", fails with
\* ValidationError (TraitError) at the assignment, and the stored value is
\* the one from before.
C9_ShapeValidation ==
    (last.op = "set" /\ HasBadShape(last.raw)) =>
      /\ last.exc = "TraitError"
      /\ value = IF last.prev = NoSubarray
                 THEN validate(Scalar(PyFloat(1))).pl
                 ELSE PatternList_attach_subarray(
                          validate(Scalar(PyFloat(1))).pl, last.prev).pl

HasBadArgument(raw) ==
    /\ raw.form = "list"
    /\ \E i \in 1..Len(raw.entries) :
          /\ raw.entries[i].form = "tuple"
          /\ Len(raw.entries[i].entry) = 3
          /\ \/ /\ raw.entries[i].entry[1] = TYPE
                /\ raw.entries[i].entry[2].k # "str"
             \/ /\ raw.entries[i].entry[1] = ID
                /\ int(raw.entries[i].entry[2]).exc # "none"

\* C10: selector-argument validation.  Assigning a list with a type rule
\* whose argument is not a str, or an id rule whose argument int() does not
\* convert (a non-numeric str, None), fails with ValidationError
\* (TraitError); and every id rule stored has an int argument.
C10_ArgumentValidation ==
    /\ (last.op = "set" /\ HasBadArgument(last.raw)) => last.exc = "TraitError"
    /\ \A i \in 1..Len(value.data) :
          value.data[i][1] = ID => value.data[i][2].k = "int"

\* the type rules of rules that match no telescope type of subarray
Unmatched(rules, subarray) ==
    {i \in 1..Len(rules) :
        /\ rules[i][1] = TYPE
        /\ \A t \in telescope_types(subarray) : ~fnmatch(t, rules[i][2].s)}

Without(rules, i) == SubSeq(rules, 1, i - 1) \o SubSeq(rules, i + 1, Len(rules))

\* C11: a type rule that matches no telescope type is not fatal.
\* attach_subarray logs one warning for each such rule and does not raise;
\* the lookup is attached, and its maps and every lookup by id or by type
\* are those of the rules without that rule.
C11_UnmatchedTypeRule ==
    /\ Bound =>
         \A i \in Unmatched(Rules, value.lookup.subarray) :
            /\ SameMaps(value.lookup,
                        Fresh(Without(Rules, i), value.lookup.subarray))
            /\ \A id \in IdUniverse :
                  tel(value.lookup, PyInt(id))
                     = ExpectedForId(Without(Rules, i), id,
                                     value.lookup.subarray)
            /\ \A t \in TypeUniverse :
                  tel(value.lookup, PyStr(t))
                     = ExpectedForType(Without(Rules, i), t,
                                       value.lookup.subarray)
    /\ (last.op = "attach" /\ value.lookup.exists) =>
         /\ last.exc = "none"
         /\ Bound
         /\ last.val = PyInt(Cardinality(Unmatched(Rules, value.lookup.subarray)))

\* C11 witness: rules [(type,"L*",2.0), (type,"*",1.0)] attached to B, where
\* "L*" matches nothing: one warning, and type MB and telescope 5 have the
\* value 1.0 of the rule after it
C11_Witness ==
    /\ last.op = "attach" /\ last.exc = "none" /\ last.val = PyInt(1)
    /\ Bound /\ value.lookup.subarray = "B"
    /\ Rules = << <<TYPE, L_STAR, PyFloat(2)>>, <<TYPE, STAR, PyFloat(1)>> >>
    /\ value.lookup.value_for_type = Put(EmptyDict, MB, PyFloat(1))
    /\ value.lookup.value_for_tel_id = Put(EmptyDict, 5, PyFloat(1))

(***************************************************************************)
(* Properties of the Path trait.  ExpectedPath is the absolute path that   *)
(* each value of the model stands for, with the working directory /w, the  *)
(* variable U set to /d, the download cache at /c/f and the datasets       *)
(* under /s.                                                               *)
(***************************************************************************)
ExpectedPath ==
    CASE path.value \in {PyStr(<<"/", "d">>), PyBytes(<<"/", "d">>),
                         PyPath(<<"/", "d">>),
                         PyStr(<<"f", "i", "l", "e", ":", "/", "/", "/", "d">>)}
            -> PyPath(<<"/", "d">>)
      [] path.value \in {PyStr(<<"f">>), PyStr(<<"f", "#", "x">>),
                         PyStr(<<"f", ";", "p">>)}
            -> PyPath(<<"/", "w", "/", "f">>)
      [] path.value = PyStr(<<"$", "U", "/", "f">>)
            -> PyPath(<<"/", "d", "/", "f">>)
      [] path.value \in HttpValues -> PyPath(<<"/", "c", "/", "f">>)
      [] path.value = PyStr(DATASET_URL) -> PyPath(<<"/", "s", "/", "n">>)
      [] OTHER -> PyPath(<<"/", "s">>)

\* the call got a path to check: a local one, a downloaded one or a dataset
PathResolved ==
    /\ path.op = "validate"
    /\ \/ path.value \in LocalValues
       \/ path.value \in HttpValues /\ path.io.online
       \/ path.value \in DatasetValues /\ path.io.found

ConstraintMessages ==
    {"does not exist", "must not exist", "must not be a directory",
     "must not be a file"}

\* C12: existence and kind of a resolved path.  validate fails with the
\* TraitError of a constraint when exists=True and there is nothing at the
\* path, or exists=False and there is something; when there is something it
\* also fails for a directory with directory_ok=False and for a file with
\* file_ok=False; in every other case, a missing path with exists=None
\* included whatever directory_ok and file_ok are, it returns the absolute
\* path.
C12_PathConstraints ==
    PathResolved =>
        LET self == path.self
            kind == path.io.kind
            fails(msg) == /\ path.exc = "TraitError"
                          /\ path.msg = msg
                          /\ path.result = None
        IN IF self.exists = PyBool(TRUE) /\ kind = "missing"
           THEN fails("does not exist")
           ELSE IF self.exists = PyBool(FALSE) /\ kind # "missing"
           THEN fails("must not exist")
           ELSE IF kind = "dir" /\ ~self.directory_ok
           THEN fails("must not be a directory")
           ELSE IF kind = "file" /\ ~self.file_ok
           THEN fails("must not be a file")
           ELSE path.exc = "none" /\ path.result = ExpectedPath

\* C12 witness: Path(exists=None, directory_ok=False, file_ok=False) was
\* given the relative path "f", there is nothing at /w/f, and validate
\* returned /w/f.
C12_Witness ==
    /\ path.op = "validate"
    /\ path.value = PyStr(<<"f">>)
    /\ path.self.exists = None
    /\ ~path.self.directory_ok
    /\ ~path.self.file_ok
    /\ path.io.kind = "missing"
    /\ path.exc = "none"
    /\ path.result = PyPath(<<"/", "w", "/", "f">>)

\* C13: dispatch on the scheme.  Text with the scheme http or https goes to
\* download_cached and to nothing else, text with the scheme dataset goes
\* to get_dataset_path and to nothing else, and what validate returns for
\* it is the path that get_dataset_path returned; text without scheme or
\* with the scheme file is a local path and goes to the constraints; text
\* with any other scheme fails with TraitError; for no value, the empty
\* text and a refused scheme neither function is called.
C13_SchemeDispatch ==
    path.op = "validate" =>
        /\ path.value \in HttpValues =>
              /\ Len(path.calls) = 1
              /\ path.calls[1].f = "download_cached"
              /\ path.calls[1].arg = PyStr(path.value.s)
              /\ path.exc = "none" => path.result = path.calls[1].ret
              /\ path.exc \in {"none", "TraitError", path.calls[1].exc}
              /\ path.exc = "TraitError" => path.msg \in ConstraintMessages
        /\ path.value \in DatasetValues =>
              /\ Len(path.calls) = 1
              /\ path.calls[1].f = "get_dataset_path"
              /\ path.exc = "none" => path.result = path.calls[1].ret
              /\ path.exc \in {"none", "TraitError", path.calls[1].exc}
              /\ path.exc = "TraitError" => path.msg \in ConstraintMessages
        /\ path.value \in LocalValues =>
              /\ path.calls = <<>>
              /\ \/ path.exc = "none" /\ path.result = ExpectedPath
                 \/ path.exc = "TraitError" /\ path.msg \in ConstraintMessages
        /\ path.value \in OtherSchemeValues =>
              /\ path.calls = <<>>
              /\ path.exc = "TraitError"
              /\ path.msg = "error"
        /\ path.value \in EmptyValues \cup MalformedValues =>
              /\ path.calls = <<>>
              /\ \/ path.exc = "TraitError" /\ path.msg = "error"
                 \/ /\ path.self.allow_none
                    /\ path.value \in {None, Undefined}
                    /\ path.exc = "none"
                    /\ path.result = path.value

\* C13 witness: "dataset://n" was validated, get_dataset_path was called
\* with "n" and returned /s/n, and validate returned /s/n.
C13_Witness ==
    /\ path.op = "validate"
    /\ path.value = PyStr(DATASET_URL)
    /\ path.calls = <<[f |-> "get_dataset_path", arg |-> PyStr(<<"n">>),
                       exc |-> "none",
                       ret |-> PyPath(<<"/", "s", "/", "n">>)]>>
    /\ path.exc = "none"
    /\ path.result = PyPath(<<"/", "s", "/", "n">>)

\* C14: validation of a component name asks the classes that are defined
\* now.  At every validate call a name that is not None is accepted, and
\* returned, if and only if cls.non_abstract_subclasses() has it at that
\* moment, whatever earlier calls gave and whatever was defined when the
\* trait was made; a refused name raises TraitError.
C14_LiveQuery ==
    [][component' # component =>
           /\ subclasses' = subclasses
           /\ component'.value # None =>
                 IF component'.value \in subclasses
                 THEN component'.exc = "none"
                      /\ component'.val = component'.value
                 ELSE component'.exc = "TraitError"]_vars

\* C14 witness: a name that was not defined when the trait was made was
\* refused by one validate call and accepted by the next.
C14_Witness ==
    /\ component.op = "validate"
    /\ component.prev.op = "validate"
    /\ component.prev.value = component.value
    /\ component.value \notin InitialSubclasses
    /\ component.prev.exc = "TraitError"
    /\ component.exc = "none"
    /\ component.val = component.value

\* C15 as stated: the global value is derived by attach_subarray, from a
\* (type,"*",_) rule that matched a telescope type; attached to a subarray
\* without telescope types, lookup(None) fails with NoDefault.
C15_GlobalDerivedByAttach ==
    Bound =>
      tel(value.lookup, None)
         = IF telescope_types(value.lookup.subarray) = {}
           THEN Raises("NoDefault")
           ELSE ExpectedForNone(Rules)

\* C15 amended: the global value is derived when the lookup is made, as
\* the value of the last rule with argument "*", matched or not;
\* attach_subarray neither resets nor sets it, and attached to a subarray
\* without telescope types lookup(None) returns it.
C15_GlobalFromRules ==
    /\ [](value.lookup.exists =>
            value.lookup.global
               = IF StarRules(Rules) = {} THEN Undefined
                 ELSE LastOf(Rules, StarRules(Rules)))
    /\ []((Bound /\ telescope_types(value.lookup.subarray) = {}
             /\ StarRules(Rules) # {}) =>
            tel(value.lookup, None) = Returns(LastOf(Rules, StarRules(Rules))))
    /\ [][(last'.op = "attach" /\ value.lookup.exists) =>
            value'.lookup.global = value.lookup.global]_vars

\* C15 witness: the rule list [(type,"*",1.0)] attached to E, which has no
\* telescope types (one warning): lookup(None) returned 1.0
C15_Witness ==
    /\ origin.form = "list"
    /\ Rules = << <<TYPE, STAR, PyFloat(1)>> >>
    /\ Bound /\ value.lookup.subarray = "E"
    /\ Unmatched(Rules, "E") = {1}
    /\ last.op = "lookup" /\ last.key = None
    /\ last.exc = "none" /\ last.val = PyFloat(1)

\* C16: every value validate() returns, the one of an empty list included,
\* has a lookup, and attach_subarray on it succeeds and leaves it attached.
C16_LookupAlways ==
    /\ (last.op \in {"init", "set"} /\ last.exc = "none") => value.lookup.exists
    /\ last.op = "attach" => (last.exc = "none" /\ Bound)

\* C17: the lookup resolves the patterns the list had when the lookup was
\* made.  append() makes the list longer and leaves the lookup and every
\* lookup result as they were; an attach_subarray after it resolves the same
\* patterns as before, against the subarray given.
C17_AppendLeavesLookup ==
    /\ [][last'.op = "append" =>
            /\ Len(value'.data) = Len(value.data) + 1
            /\ value'.lookup = value.lookup
            /\ \A key \in Keys :
                  tel(value'.lookup, key) = tel(value.lookup, key)]_vars
    /\ [][(last'.op = "attach" /\ value.lookup.exists) =>
            /\ value'.lookup.params = value.lookup.params
            /\ \A key \in Keys :
                  tel(value'.lookup, key)
                     = tel(Fresh(value.lookup.params, value'.subarray), key)]_vars

\* C17 witness: the list [(id,5,2.0)] got ("type","*",2.0) appended and was
\* then attached: the lookup has the one rule and no global value
C17_Witness ==
    /\ last.op = "attach" /\ Bound
    /\ value.data = << <<ID, PyInt(5), PyFloat(2)>>, <<TYPE, STAR, PyFloat(2)>> >>
    /\ Rules = << <<ID, PyInt(5), PyFloat(2)>> >>
    /\ tel(value.lookup, None) = Raises("NoDefault")

\* C18: an assignment that fails with ValidationError (TraitError) changes
\* nothing: the stored list, its lookup, its subarray and so every lookup
\* result are those from before the assignment.
C18_FailedSetChangesNothing ==
    [][(last'.op = "set" /\ last'.exc = "TraitError") =>
          /\ value' = value
          /\ \A key \in Keys : tel(value'.lookup, key) = tel(value.lookup, key)]_vars

\* C18 witness: a list whose second entry has the tag "Type" was assigned
\* to a value attached to A: TraitError, and the value is the attached 1.0
C18_Witness ==
    /\ last.op = "set" /\ last.exc = "TraitError"
    /\ last.raw.form = "list" /\ Len(last.raw.entries) = 2
    /\ last.raw.entries[1] \in ValidEntries
    /\ last.raw.entries[2].entry[1] = PyStr(<<"T", "y", "p", "e">>)
    /\ Bound /\ value.lookup.subarray = "A"
    /\ Rules = << <<TYPE, STAR, PyFloat(1)>> >>

====
